---- MODULE Spec2Model ----
(***************************************************************************)
(* Model of docs/scripts/gauss.f.py: hyperparameter estimation for a       *)
(* squared-exponential Gaussian process by (1) a brute force grid search   *)
(* over b_search x c_search and (2) a positively constrained downhill      *)
(* simplex search (fmin_pos wrapping scipy.optimize.fmin).                 *)
(*                                                                         *)
(* Numbers.  The script computes in IEEE double precision.  A float is a   *)
(* record [k, v]: k is "fin", "pinf", "ninf" or "nan".  The model is a     *)
(* scaled-down float format: a finite magnitude in the positive domain     *)
(* (b, c) is counted in units of the smallest positive float, a finite     *)
(* point of the log domain (beta, gamma) is counted in units of ln 2.      *)
(* exp and log are computed as the hardware computes them: exp underflows  *)
(* to 0 below MinExp, overflows to +inf above MaxExp, log(0) = -inf and    *)
(* log of a negative number is nan (numpy warns, it does not raise).       *)
(*                                                                         *)
(* The likelihood itself (rbf.gauss.gpse(...).likelihood) is not part of   *)
(* the script; it is an uninterpreted deterministic function of its        *)
(* arguments, failing where the design document says it fails.             *)
(***************************************************************************)
EXTENDS Integers, Sequences, FiniteSets, TLC

\* ------------------------------------------------------------------ bounds
\* number of candidates per grid axis (30 in the script)
m == 2
\* finite exponents representable by exp: MinExp..MaxExp
ExpRange == 1
\* evaluation budget of the minimizer (maxfun)
MaxEvals == 2

MinExp == 0 - ExpRange
MaxExp == ExpRange

\* ------------------------------------------------------------------ floats
Fin(n) == [k |-> "fin", v |-> n]
NaN == [k |-> "nan", v |-> 0]
PInf == [k |-> "pinf", v |-> 0]
NInf == [k |-> "ninf", v |-> 0]

RECURSIVE Pow2(_)
Pow2(n) == IF n <= 0 THEN 1 ELSE 2 * Pow2(n - 1)

RECURSIVE Log2(_)
Log2(n) == IF n <= 1 THEN 0 ELSE 1 + Log2(n \div 2)

\* np.exp on one float
Exp(x) ==
  CASE x.k = "nan" -> NaN
    [] x.k = "ninf" -> Fin(0)
    [] x.k = "pinf" -> PInf
    [] OTHER -> IF x.v < MinExp THEN Fin(0)
                ELSE IF x.v > MaxExp THEN PInf
                ELSE Fin(Pow2(x.v - MinExp))

\* np.log on one float
Log(y) ==
  CASE y.k = "nan" -> NaN
    [] y.k = "ninf" -> NaN
    [] y.k = "pinf" -> PInf
    [] OTHER -> IF y.v < 0 THEN NaN
                ELSE IF y.v = 0 THEN NInf
                ELSE Fin(Log2(y.v) + MinExp)

\* np.exp / np.log on a pair (elementwise)
ExpPt(p) == <<Exp(p[1]), Exp(p[2])>>
LogPt(p) == <<Log(p[1]), Log(p[2])>>

IsPos(y) == y.k = "pinf" \/ (y.k = "fin" /\ y.v > 0)
IsFinite(y) == y.k = "fin"

\* the literals 0.0 and 1.0 of the script
Zero == Fin(0)
One == Exp(Fin(0))

\* ------------------------------------------------- likelihood evaluator
\* rbf.gauss.gpse((a,b,c)): a fresh model holding its own hyperparameters
Gpse(a, b, c) == [a |-> a, b |-> b, c |-> c]
NoGp == Gpse(NaN, NaN, NaN)

\* without observation noise K alone must be factorized, and it is
\* numerically singular for a degenerate variance (b = 0), for a near-zero
\* length-scale (the smallest positive float) and for a length-scale so
\* large that the rows of K coincide (the largest finite float)
Singular(g, o) ==
  /\ o.sigma = 0
  /\ (g.b.v = 0 \/ g.c.v = 1 \/ g.c.v = Pow2(MaxExp - MinExp))

\* K + Sigma is positive definite: finite hyperparameters, b >= 0, c > 0,
\* and not numerically singular
PosDef(g, o) ==
  /\ IsFinite(g.b) /\ IsFinite(g.c)
  /\ g.b.v >= 0 /\ g.c.v > 0
  /\ ~Singular(g, o)

\* gp.likelihood(t,d,sigma=sigma): the log marginal likelihood as an
\* uninterpreted term over its arguments, or the error it raises
Likelihood(g, o) ==
  [tag |-> IF g.c = Zero THEN "DomainError"
           ELSE IF ~PosDef(g, o) THEN "NumericalError"
           ELSE "val",
   neg |-> FALSE, gp |-> g, obs |-> o]

IsErr(r) == r.tag \in {"DomainError", "NumericalError"}

\* unary minus on a likelihood value
Neg(r) == [r EXCEPT !.neg = ~r.neg]

\* ------------------------------------------------------------------ inputs
SigmaVals == {0, 1}
Observations == {[t |-> "t", d |-> "d", sigma |-> s] : s \in SigmaVals}
NoObs == [t |-> "", d |-> "", sigma |-> 0]

\* an entry of np.zeros((30,30))
ZeroCell == [tag |-> "zero", neg |-> FALSE, gp |-> NoGp, obs |-> NoObs]

Idx == 0 .. (m - 1)
Cells == Idx \X Idx

\* 10**np.linspace(lo,hi,30): an increasing geometric sweep of positive values
Sweep(lo) == [k \in Idx |-> Exp(Fin(lo + k))]
Sweeps == {Sweep(lo) : lo \in MinExp .. (MaxExp - (m - 1))}

\* starting guesses handed to fmin_pos; the script's is [1.0,1.0]
X0s == {<<One, One>>, <<Zero, One>>, <<One, Zero>>, <<Fin(-1), One>>,
        <<Exp(Fin(MaxExp)), Exp(Fin(MinExp))>>}

\* the finite points the black-box minimizer may query: every exponent exp
\* maps to a finite positive value, one below (underflow), one above (overflow)
XVals == (MinExp - 1) .. (MaxExp + 1)
XPts == {<<Fin(x), Fin(y)>> : x \in XVals, y \in XVals}

\* ------------------------------------------------------------------ state
VARIABLES
  obs,          \* (t, d, sigma)
  b_search,     \* variance candidates
  c_search,     \* length-scale candidates
  likelihoods,  \* the m x m surface
  i, j,         \* position of the grid loop
  gp,           \* the model built by the current grid iteration
  nwrites,      \* how often each cell has been written
  ngrid,        \* likelihood evaluations made by the grid search
  x0,           \* starting guess (b0, c0)
  pc,           \* "grid", "simplex", "fmin", "fmin_ret", "plot", "done", "raised"
  raised,       \* the exception that ended the script, or "none"
  fmin_x0,      \* <<start>> once fmin has been called, else << >>
  q,            \* <<point>> last queried by the minimizer
  arg,          \* <<x>> last passed by pos_func to the objective
  fval,         \* <<value>> last returned to the minimizer
  nevals,       \* objective evaluations made by the minimizer
  best,         \* <<point>> the minimizer holds as its best
  xopt,         \* <<point>> returned by fmin
  warnflag,     \* 0 converged, 1 evaluation budget exhausted
  warned,       \* fmin displayed its non-convergence warning
  mle,          \* <<(b_mle, c_mle)>>
  shown         \* <<surface>> handed to contourf

vars == <<obs, b_search, c_search, likelihoods, i, j, gp, nwrites, ngrid, x0,
          pc, raised, fmin_x0, q, arg, fval, nevals, best, xopt, warnflag,
          warned, mle, shown>>

dataVars == <<obs, b_search, c_search, x0>>
gridVars == <<likelihoods, i, j, gp, nwrites, ngrid>>
fminVars == <<fmin_x0, q, arg, fval, nevals, best, xopt, warnflag, warned, mle>>

Init ==
  /\ obs \in Observations
  /\ b_search \in Sweeps
  /\ c_search \in Sweeps
  /\ likelihoods = [ii \in Idx |-> [jj \in Idx |-> ZeroCell]]
  /\ i = 0 /\ j = 0
  /\ gp = NoGp
  /\ nwrites = [c \in Cells |-> 0]
  /\ ngrid = 0
  /\ x0 \in X0s
  /\ pc = "grid"
  /\ raised = "none"
  /\ fmin_x0 = << >> /\ q = << >> /\ arg = << >> /\ fval = << >>
  /\ nevals = 0
  /\ best = << >> /\ xopt = << >>
  /\ warnflag = 0 /\ warned = FALSE
  /\ mle = << >>
  /\ shown = << >>

\* ------------------------------------------------------------ grid search
\* faulty variant: the candidates are taken from the wrong axes
GridGpSwapped(ii, jj) == Gpse(Zero, b_search[jj], c_search[ii])

\* gp = rbf.gauss.gpse((0.0,b_test,c_test))
GridGp(ii, jj) == Gpse(Zero, b_search[ii], c_search[jj])

\* faulty variant: the iteration also resets the next cell of its row
LoopBodyClobber(L, ii, jj) ==
  [L EXCEPT ![ii][jj] = Likelihood(GridGp(ii, jj), obs),
            ![ii][(jj + 1) % m] = ZeroCell]

\* likelihoods[i,j] = gp.likelihood(t,d,sigma=sigma)
LoopBody(L, ii, jj) ==
  [L EXCEPT ![ii][jj] = Likelihood(GridGp(ii, jj), obs)]

\* faulty variant: a failed evaluation is replaced by a sentinel and the
\* loop goes on
GridStepSentinel ==
  /\ pc = "grid"
  /\ gp' = GridGp(i, j)
  /\ ngrid' = ngrid + 1
  /\ likelihoods' =
       IF IsErr(Likelihood(GridGp(i, j), obs))
         THEN [likelihoods EXCEPT ![i][j] = [ZeroCell EXCEPT !.tag = "sentinel"]]
         ELSE LoopBody(likelihoods, i, j)
  /\ nwrites' = [nwrites EXCEPT ![<<i, j>>] = @ + 1]
  /\ raised' = raised
  /\ IF j + 1 < m
       THEN /\ j' = j + 1 /\ i' = i /\ pc' = pc
       ELSE IF i + 1 < m
         THEN /\ i' = i + 1 /\ j' = 0 /\ pc' = pc
         ELSE /\ i' = i /\ j' = j /\ pc' = "simplex"
  /\ UNCHANGED <<dataVars, fminVars, shown>>

\* faulty variant: the search stops at the end of the first row
GridStepEarlyStop ==
  /\ pc = "grid"
  /\ gp' = GridGp(i, j)
  /\ ngrid' = ngrid + 1
  /\ IF IsErr(Likelihood(GridGp(i, j), obs))
       THEN /\ pc' = "raised"
            /\ raised' = Likelihood(GridGp(i, j), obs).tag
            /\ UNCHANGED <<likelihoods, nwrites, i, j>>
       ELSE /\ likelihoods' = LoopBody(likelihoods, i, j)
            /\ nwrites' = [nwrites EXCEPT ![<<i, j>>] = @ + 1]
            /\ raised' = raised
            /\ IF j + 1 < m
                 THEN /\ j' = j + 1 /\ i' = i /\ pc' = pc
                 ELSE /\ i' = i /\ j' = j /\ pc' = "simplex"
  /\ UNCHANGED <<dataVars, fminVars, shown>>

\* one iteration of the nested for loops; an exception raised by the
\* likelihood propagates out of the loop and ends the script
GridStep ==
  /\ pc = "grid"
  /\ gp' = GridGp(i, j)
  /\ ngrid' = ngrid + 1
  /\ IF IsErr(Likelihood(GridGp(i, j), obs))
       THEN /\ pc' = "raised"
            /\ raised' = Likelihood(GridGp(i, j), obs).tag
            /\ UNCHANGED <<likelihoods, nwrites, i, j>>
       ELSE /\ likelihoods' = LoopBody(likelihoods, i, j)
            /\ nwrites' = [nwrites EXCEPT ![<<i, j>>] = @ + 1]
            /\ raised' = raised
            /\ IF j + 1 < m
                 THEN /\ j' = j + 1 /\ i' = i /\ pc' = pc
                 ELSE IF i + 1 < m
                   THEN /\ i' = i + 1 /\ j' = 0 /\ pc' = pc
                   ELSE /\ i' = i /\ j' = j /\ pc' = "simplex"
  /\ UNCHANGED <<dataVars, fminVars, shown>>

\* the same loop body with the cells taken in any order (each cell once)
GridAny(ii, jj) ==
  /\ pc = "grid"
  /\ nwrites[<<ii, jj>>] = 0
  /\ gp' = GridGp(ii, jj)
  /\ ngrid' = ngrid + 1
  /\ i' = ii /\ j' = jj
  /\ IF IsErr(Likelihood(GridGp(ii, jj), obs))
       THEN /\ pc' = "raised"
            /\ raised' = Likelihood(GridGp(ii, jj), obs).tag
            /\ UNCHANGED <<likelihoods, nwrites>>
       ELSE /\ likelihoods' = LoopBody(likelihoods, ii, jj)
            /\ nwrites' = [nwrites EXCEPT ![<<ii, jj>>] = @ + 1]
            /\ raised' = raised
            /\ pc' = IF \A c \in Cells \ {<<ii, jj>>} : nwrites[c] > 0
                       THEN "simplex" ELSE pc
  /\ UNCHANGED <<dataVars, fminVars, shown>>

\* --------------------------------------------------------- simplex search
\* objective(x,t,d,sigma): gp = gpse((0.0,x[0],x[1])); -gp.likelihood(...)
ObjectiveGp(x) == Gpse(Zero, x[1], x[2])
\* faulty variant: the likelihood is not negated
ObjectiveNoNeg(x, o) == Likelihood(ObjectiveGp(x), o)
Objective(x, o) == Neg(Likelihood(ObjectiveGp(x), o))

\* pos_func(x,*blargs) = func(np.exp(x),*blargs)
PosArg(p) == ExpPt(p)
PosFunc(p, o) == Objective(PosArg(p), o)

\* np.log(x0): the starting point handed to fmin
FminStart(guess) == LogPt(guess)

\* faulty variant: the minimizer's point is returned without exponentiation
FminPosOutRaw(p) == p

\* out = np.exp(out)
FminPosOut(p) == ExpPt(p)

\* b_mle,c_mle = fmin_pos(objective,[1.0,1.0],args=(t,d,sigma)) up to the
\* call of fmin: no check of x0 is made, the logarithm is taken as it comes
FminPosCall ==
  /\ pc = "simplex"
  /\ fmin_x0' = <<FminStart(x0)>>
  /\ pc' = "fmin"
  /\ UNCHANGED <<dataVars, gridVars, raised, q, arg, fval, nevals, best, xopt,
                 warnflag, warned, mle, shown>>

\* faulty variant: the objective caches its value in the surface
MinimizerQueryCaching(p, take) ==
  /\ pc = "fmin"
  /\ nevals < MaxEvals
  /\ nevals = 0 => (p = fmin_x0[1] /\ take)
  /\ q' = <<p>>
  /\ arg' = <<PosArg(p)>>
  /\ nevals' = nevals + 1
  /\ likelihoods' = [likelihoods EXCEPT ![0][0] = PosFunc(p, obs)]
  /\ IF IsErr(PosFunc(p, obs))
       THEN /\ pc' = "raised"
            /\ raised' = PosFunc(p, obs).tag
            /\ UNCHANGED <<fval, best>>
       ELSE /\ fval' = <<PosFunc(p, obs)>>
            /\ best' = IF take THEN <<p>> ELSE best
            /\ UNCHANGED <<pc, raised>>
  /\ UNCHANGED <<dataVars, i, j, gp, nwrites, ngrid, fmin_x0, xopt, warnflag,
                 warned, mle, shown>>

\* the black-box minimizer evaluates the function it was handed at a point of
\* its choosing (the first one is its starting point) and may take that point
\* as its best; an exception of the objective propagates through fmin
MinimizerQuery(p, take) ==
  /\ pc = "fmin"
  /\ nevals < MaxEvals
  /\ nevals = 0 => (p = fmin_x0[1] /\ take)
  /\ q' = <<p>>
  /\ arg' = <<PosArg(p)>>
  /\ nevals' = nevals + 1
  /\ IF IsErr(PosFunc(p, obs))
       THEN /\ pc' = "raised"
            /\ raised' = PosFunc(p, obs).tag
            /\ UNCHANGED <<fval, best>>
       ELSE /\ fval' = <<PosFunc(p, obs)>>
            /\ best' = IF take THEN <<p>> ELSE best
            /\ UNCHANGED <<pc, raised>>
  /\ UNCHANGED <<dataVars, gridVars, fmin_x0, xopt, warnflag, warned, mle, shown>>

\* fmin meets its convergence criterion and returns its best point
MinimizerConverge ==
  /\ pc = "fmin"
  /\ nevals >= 1
  /\ xopt' = best
  /\ warnflag' = 0
  /\ pc' = "fmin_ret"
  /\ UNCHANGED <<dataVars, gridVars, raised, fmin_x0, q, arg, fval, nevals,
                 best, warned, mle, shown>>

\* fmin exhausts its budget: with disp left at its default it displays the
\* warning, and it returns its best point all the same
MinimizerExhaust ==
  /\ pc = "fmin"
  /\ nevals = MaxEvals
  /\ xopt' = best
  /\ warnflag' = 1
  /\ warned' = TRUE
  /\ pc' = "fmin_ret"
  /\ UNCHANGED <<dataVars, gridVars, raised, fmin_x0, q, arg, fval, nevals,
                 best, mle, shown>>

\* out = np.exp(out); return out; b_mle,c_mle = ...
FminPosReturn ==
  /\ pc = "fmin_ret"
  /\ mle' = <<FminPosOut(xopt[1])>>
  /\ pc' = "plot"
  /\ UNCHANGED <<dataVars, gridVars, raised, fmin_x0, q, arg, fval, nevals,
                 best, xopt, warnflag, warned, shown>>

\* ax.contourf(b_search,c_search,likelihoods.T,...)
Plot ==
  /\ pc = "plot"
  /\ shown' = <<likelihoods>>
  /\ pc' = "done"
  /\ UNCHANGED <<dataVars, gridVars, fminVars, raised>>

Queries == XPts \cup {LogPt(g) : g \in X0s}

Simplex ==
  \/ FminPosCall
  \/ \E p \in Queries, take \in BOOLEAN : MinimizerQuery(p, take)
  \/ MinimizerConverge
  \/ MinimizerExhaust
  \/ FminPosReturn
  \/ Plot

Next == GridStep \/ Simplex

Spec == Init /\ [][Next]_vars

NextAnyOrder == \E c \in Cells : GridAny(c[1], c[2])

SpecAnyOrder == Init /\ [][NextAnyOrder]_vars

\* ================================================================ claims
\* the grid search ran to its end (the script is at or past line 53)
GridFinished == pc \in {"simplex", "fmin", "fmin_ret", "plot", "done"}
                  \/ (pc = "raised" /\ fmin_x0 # << >>)

\* C1: when the grid search finishes, likelihoods[i,j] is the likelihood
\* evaluator's result for the hyperparameters (0, b_search[i], c_search[j])
\* on (t, d, sigma): first index variance, second index length-scale,
\* mean offset 0.
C1_SurfaceEntries ==
  GridFinished =>
    \A ii \in Idx, jj \in Idx :
      likelihoods[ii][jj] =
        Likelihood(Gpse(Fin(0), b_search[ii], c_search[jj]), obs)

C1_Witness ==
  /\ pc = "simplex"
  /\ likelihoods[0][m - 1].tag = "val"
  /\ likelihoods[0][m - 1].gp.b # likelihoods[0][m - 1].gp.c
  /\ likelihoods[0][m - 1] # likelihoods[m - 1][0]

\* C3: for every point (beta, gamma) the minimizer queries, the value it
\* receives is the negated log likelihood at (0, exp(beta), exp(gamma)) on
\* the observation set given to the search.
C3_NegatedLikelihood ==
  (q # << >> /\ pc # "raised") =>
    /\ fval # << >>
    /\ fval[1].tag = "val"
    /\ fval[1].neg
    /\ fval[1].obs = obs
    /\ fval[1].gp = [a |-> Fin(0), b |-> Exp(q[1][1]), c |-> Exp(q[1][2])]

C3_Witness ==
  /\ pc = "fmin"
  /\ nevals = MaxEvals
  /\ q # fmin_x0
  /\ q[1][1] # q[1][2]
  /\ fval[1].neg

PositiveStart == IsPos(x0[1]) /\ IsPos(x0[2])

\* C2: in a search started from positive (b0, c0), every call the wrapper
\* makes to the objective, for any point the minimizer queries, passes
\* strictly positive b > 0 and c > 0.
C2_StrictlyPositiveArgs ==
  (PositiveStart /\ arg # << >>) => (IsPos(arg[1][1]) /\ IsPos(arg[1][2]))

\* C4: the minimizer is handed the starting point (log b0, log c0), the pair
\* returned is (exp(beta*), exp(gamma*)) for the point (beta*, gamma*) the
\* minimizer returned, and b_mle and c_mle are strictly positive (stated
\* here for a positive starting guess).
C4_StartAndResult ==
  /\ fmin_x0 # << >> => fmin_x0[1] = <<Log(x0[1]), Log(x0[2])>>
  /\ mle # << >> =>
       /\ mle[1] = <<Exp(xopt[1][1]), Exp(xopt[1][2])>>
       /\ PositiveStart => (IsPos(mle[1][1]) /\ IsPos(mle[1][2]))

\* C5: started with b0 <= 0 or c0 <= 0 the search fails at once: the
\* minimizer is never invoked, the objective never evaluated, no pair
\* returned.
C5_DomainErrorAtOnce ==
  ~PositiveStart => (fmin_x0 = << >> /\ nevals = 0 /\ mle = << >>)

\* some cell of the grid has a failing likelihood evaluation
GridCellFails ==
  \E c \in Cells :
    IsErr(Likelihood(Gpse(Fin(0), b_search[c[1]], c_search[c[2]]), obs))

\* C6: if the evaluation of a grid cell fails, the grid search propagates
\* the failure: it does not complete, the script ends with that exception,
\* and no surface holding a substitute value in the failed cell is presented.
C6_FailurePropagates ==
  GridCellFails =>
    /\ pc \in {"grid", "raised"}
    /\ shown = << >>
    /\ mle = << >>
    /\ pc = "raised" =>
         /\ raised = Likelihood(gp, obs).tag
         /\ raised \in {"DomainError", "NumericalError"}
         /\ ngrid = i * m + j + 1
    /\ pc = "grid" => raised = "none"

C6_Witness ==
  /\ pc = "raised"
  /\ fmin_x0 = << >>
  /\ ngrid > 1
  /\ likelihoods[0][0].tag = "val"
  /\ likelihoods[i][j] = ZeroCell

Before(c, ii, jj) == c[1] < ii \/ (c[1] = ii /\ c[2] < jj)

\* C8: the grid search is exhaustive and terminates: without a failing
\* evaluation it makes exactly m*m evaluations, one per pair (i,j), writes
\* every cell exactly once, and stops early on no condition.
C8_Exhaustive ==
  /\ GridFinished =>
       /\ ngrid = m * m
       /\ \A c \in Cells : nwrites[c] = 1
  /\ pc = "grid" =>
       /\ ngrid = i * m + j
       /\ ngrid < m * m
       /\ i \in Idx /\ j \in Idx
       /\ \A c \in Cells : nwrites[c] = IF Before(c, i, j) THEN 1 ELSE 0
       /\ ENABLED GridStep

C8_Witness ==
  /\ pc = "simplex"
  /\ ngrid = m * m
  /\ \A c \in Cells : likelihoods[c[1]][c[2]].tag = "val"

\* the surface the row-major loop builds from L, starting at cell number k
RECURSIVE RowMajor(_, _)
RowMajor(L, k) ==
  IF k >= m * m THEN L
  ELSE RowMajor(LoopBody(L, k \div m, k % m), k + 1)

C10_Frame ==
  [][/\ obs' = obs /\ b_search' = b_search /\ c_search' = c_search
     /\ GridFinished => likelihoods' = likelihoods
     /\ ngrid' # ngrid => gp' = [a |-> Fin(0), b |-> b_search[i], c |-> c_search[j]]
     /\ (nevals' # nevals /\ pc' # "raised") =>
          fval'[1].gp = [a |-> Fin(0), b |-> arg'[1][1], c |-> arg'[1][2]]
     /\ nevals' # nevals => gp' = gp]_vars

C10_Witness ==
  /\ pc = "fmin"
  /\ nevals = MaxEvals
  /\ q # fmin_x0
  /\ \A c \in Cells : nwrites[c] = 1

====
